---------------------------- MODULE Spec2Model ----------------------------
(***************************************************************************)
(* Governance interception layer of Roo-Code: the gate (PreHook), the      *)
(* logger (postWriteFileHook), the optimistic lock check and the           *)
(* orchestrator (HookEngine.executeWithHooks), as state machines.          *)
(*                                                                         *)
(* JavaScript strings are sequences of one-character strings; a value that *)
(* may be null/undefined is a record [t, s] with t = "null" or t = "str".  *)
(***************************************************************************)
EXTENDS Naturals, Sequences, FiniteSets, TLC

(***************************************************************************)
(* Bounds of the model.                                                    *)
(***************************************************************************)
\* how many executeWithHooks / postWriteFileHook calls one behaviour starts
MaxInvocations == 2
\* how many writes one behaviour of the lock specification performs
MaxWrites == 3

\* longest generated path and pattern the gate functions are applied to
MaxPathLen == 4
MaxPatLen == 3
\* longest generated content the hash is applied to
MaxContentLen == 3
\* most entries a generated registry file holds
MaxEntries == 2

Agents == {"A", "B"}

(***************************************************************************)
(* JavaScript values.                                                      *)
(***************************************************************************)
Null == [t |-> "null", s |-> <<>>]
Str(cs) == [t |-> "str", s |-> cs]

\* JS truthiness of a string-or-null value: null, undefined and "" are falsy
Truthy(v) == v.t = "str" /\ Len(v.s) > 0

IsWhiteSpace(c) == c \in {" ", "\t", "\n", "\r"}

RECURSIVE TrimStart(_)
TrimStart(cs) ==
    IF cs = <<>> THEN <<>>
    ELSE IF IsWhiteSpace(Head(cs)) THEN TrimStart(Tail(cs)) ELSE cs

RECURSIVE TrimEnd(_)
TrimEnd(cs) ==
    IF cs = <<>> THEN <<>>
    ELSE IF IsWhiteSpace(cs[Len(cs)]) THEN TrimEnd(SubSeq(cs, 1, Len(cs) - 1)) ELSE cs

\* String.prototype.trim
Trim(cs) == TrimEnd(TrimStart(cs))

(***************************************************************************)
(* Scope matcher: enforceScope turns each glob into a regular expression   *)
(* by two global replaces and tests the anchored expression on the path.   *)
(***************************************************************************)
\* pattern.replace(/\*\*/g, ".*"): left to right, non-overlapping
RECURSIVE ReplaceDoubleStar(_)
ReplaceDoubleStar(cs) ==
    IF cs = <<>> THEN <<>>
    ELSE IF Len(cs) >= 2 /\ cs[1] = "*" /\ cs[2] = "*"
         THEN <<".", "*">> \o ReplaceDoubleStar(SubSeq(cs, 3, Len(cs)))
         ELSE <<cs[1]>> \o ReplaceDoubleStar(Tail(cs))

\* .replace(/\*/g, "[^/]*"): every remaining "*", those of ".*" included
RECURSIVE ReplaceStar(_)
ReplaceStar(cs) ==
    IF cs = <<>> THEN <<>>
    ELSE IF cs[1] = "*"
         THEN <<"[", "^", "/", "]", "*">> \o ReplaceStar(Tail(cs))
         ELSE <<cs[1]>> \o ReplaceStar(Tail(cs))

\* the source text handed to new RegExp (between ^ and $)
RegexSource(pattern) == ReplaceStar(ReplaceDoubleStar(pattern))

\* the characters of a pattern that new RegExp reads as operators
Quantifiers == {"*", "+"}
IsClassAt(cs) == Len(cs) >= 4 /\ SubSeq(cs, 1, 4) = <<"[", "^", "/", "]">>

\* new RegExp(src) compiles: a quantifier must follow an atom that carries no
\* quantifier yet, otherwise it throws SyntaxError ("Nothing to repeat");
\* quantifiable says whether the text read so far ends in such an atom
RECURSIVE RegexCompiles(_, _)
RegexCompiles(cs, quantifiable) ==
    IF cs = <<>> THEN TRUE
    ELSE IF Head(cs) \in Quantifiers
         THEN quantifiable /\ RegexCompiles(Tail(cs), FALSE)
    ELSE IF IsClassAt(cs) THEN RegexCompiles(SubSeq(cs, 5, Len(cs)), TRUE)
    ELSE RegexCompiles(Tail(cs), TRUE)

\* new RegExp(src): atoms are "." (any character but a line terminator),
\* the class [^/] and literal characters; "*" and "+" quantify the atom
\* before them (x+ is read as x followed by x*).
RECURSIVE ParseRegex(_)
ParseRegex(cs) ==
    IF cs = <<>> THEN <<>>
    ELSE LET isClass == IsClassAt(cs)
             atomLen == IF isClass THEN 4 ELSE 1
             kind    == IF isClass THEN "notslash"
                        ELSE IF cs[1] = "." THEN "any" ELSE "lit"
             quant   == IF Len(cs) > atomLen /\ cs[atomLen + 1] \in Quantifiers
                        THEN cs[atomLen + 1] ELSE "none"
             used    == IF quant = "none" THEN atomLen ELSE atomLen + 1
             atom(star) == [kind |-> kind, c |-> cs[1], star |-> star]
         IN  (IF quant = "+" THEN << atom(FALSE), atom(TRUE) >>
              ELSE << atom(quant = "*") >>)
                \o ParseRegex(SubSeq(cs, used + 1, Len(cs)))

AtomAccepts(atom, c) ==
    CASE atom.kind = "any"      -> c \notin {"\n", "\r"}
      [] atom.kind = "notslash" -> c # "/"
      [] OTHER                  -> c = atom.c

\* regex.test(path) for an expression anchored with ^ and $
RECURSIVE RegexMatchFrom(_, _, _, _)
RegexMatchFrom(re, i, s, j) ==
    IF i > Len(re) THEN j > Len(s)
    ELSE IF re[i].star
         THEN \/ RegexMatchFrom(re, i + 1, s, j)
              \/ (j <= Len(s) /\ AtomAccepts(re[i], s[j])
                              /\ RegexMatchFrom(re, i, s, j + 1))
         ELSE j <= Len(s) /\ AtomAccepts(re[i], s[j])
                          /\ RegexMatchFrom(re, i + 1, s, j + 1)

PatternTest(pattern, path) ==
    RegexMatchFrom(ParseRegex(RegexSource(pattern)), 1, path, 1)

\* intent.owned_scope.some(pattern => regex.test(filePath)): the patterns
\* are compiled and tested in order up to the first that matches; a pattern
\* that does not compile throws out of some()
RECURSIVE ScopeSome(_, _)
ScopeSome(owned_scope, path) ==
    IF owned_scope = <<>> THEN "nomatch"
    ELSE IF ~RegexCompiles(RegexSource(Head(owned_scope)), FALSE) THEN "SyntaxError"
    ELSE IF PatternTest(Head(owned_scope), path) THEN "match"
    ELSE ScopeSome(Tail(owned_scope), path)

(***************************************************************************)
(* Inputs: intent ids, paths, patterns, contents, commands.                *)
(***************************************************************************)
INT001 == <<"I", "N", "T", "-", "0", "0", "1">>
INT002 == <<"I", "N", "T", "-", "0", "0", "2">>
UnlistedId == <<"X">>

SrcCoreFoo == <<"s","r","c","/","c","o","r","e","/","f","o","o",".","t","x","t">>
DocsReadme == <<"d","o","c","s","/","r","e","a","d","m","e",".","t","x","t">>
SrcCoreGlob == <<"s","r","c","/","c","o","r","e","/","*","*">>
DocsGlob == <<"d","o","c","s","/","*">>

Paths == {SrcCoreFoo, DocsReadme}
OldContent == <<"o">>
NewContent == <<"x">>

\* intent ids a caller may pass: absent, empty, whitespace-only, listed, unlisted
IntentIdInputs == {Null, Str(<<>>), Str(<<" ">>), Str(INT001), Str(UnlistedId)}
CommandInputs == {"read_file", "write_file", "delete_file", "frobnicate"}

\* what a caller wraps: the wrapped action's command and the meta it passes
\* (no meta; a write in src/core; a write in docs; a write of empty content)
Meta(filePath, content, command) ==
    [filePath |-> filePath, content |-> content, command |-> command]
MetaInputs ==
    { Meta(Null, Null, "read_file"),
      Meta(Str(SrcCoreFoo), Str(NewContent), "write_file"),
      Meta(Str(DocsReadme), Str(NewContent), "write_file"),
      Meta(Str(SrcCoreFoo), Str(<<>>), "write_file") }

(***************************************************************************)
(* Intent registry (.orchestration/active_intents.yaml), as the entries    *)
(* extractIntentBlock finds in it; readable = FALSE is a missing file.     *)
(***************************************************************************)
RegistryMissing == [readable |-> FALSE, entries |-> <<>>]
RegistryTwo ==
    [readable |-> TRUE,
     entries  |-> << [id |-> INT001, owned_scope |-> <<SrcCoreGlob>>],
                     [id |-> INT002, owned_scope |-> <<DocsGlob>>] >>]
Registries == {RegistryMissing, RegistryTwo}

AllIntentFields == {"id", "name", "owned_scope", "constraints", "acceptance_criteria"}
NoBlock == [id |-> <<>>, owned_scope |-> <<>>, has |-> {}]

\* a plausible slip: the block carries only what the permissive stub carries
RECURSIVE ExtractIntentBlockBare(_, _)
ExtractIntentBlockBare(entries, id) ==
    IF entries = <<>> THEN NoBlock
    ELSE IF Head(entries).id # id THEN ExtractIntentBlockBare(Tail(entries), id)
    ELSE [id |-> id, owned_scope |-> Head(entries).owned_scope,
          has |-> {"id", "owned_scope"}]
\* the first entry whose id equals the requested id, or null
RECURSIVE ExtractIntentBlock(_, _)
ExtractIntentBlock(entries, id) ==
    IF entries = <<>> THEN NoBlock
    ELSE IF Head(entries).id # id THEN ExtractIntentBlock(Tail(entries), id)
    ELSE [id |-> id, owned_scope |-> Head(entries).owned_scope, has |-> AllIntentFields]

\* { id: activeIntentId, owned_scope: ["**"] }
PermissiveStub(id) ==
    [id |-> id, owned_scope |-> << <<"*", "*">> >>, has |-> {"id", "owned_scope"}]

\* a plausible slip: the guard without its trim() test
ValidateThrowsUntrimmed(activeIntentId) == ~Truthy(activeIntentId)
\* PreHook.validate: the guard that throws "You must cite a valid active Intent ID"
ValidateThrows(activeIntentId) ==
    ~Truthy(activeIntentId) \/ Len(Trim(activeIntentId.s)) = 0

\* PreHook.validate: the intent returned when the guard passes
ValidateIntent(reg, activeIntentId) ==
    IF ~reg.readable THEN PermissiveStub(activeIntentId.s)
    ELSE LET block == ExtractIntentBlock(reg.entries, activeIntentId.s)
         IN  IF block = NoBlock THEN PermissiveStub(activeIntentId.s) ELSE block

\* The validation logic part_002 keeps for compatibility -------------------
\* the first entry whose id equals the requested id, or null
RECURSIVE LegacyExtractIntentBlock(_, _)
LegacyExtractIntentBlock(entries, id) ==
    IF entries = <<>> THEN NoBlock
    ELSE IF Head(entries).id = id
         THEN [id |-> id, owned_scope |-> Head(entries).owned_scope,
               has |-> AllIntentFields]
         ELSE LegacyExtractIntentBlock(Tail(entries), id)

\* a plausible slip: the compatibility guard without its trim() test
LegacyValidateThrowsUntrimmed(activeIntentId) == ~Truthy(activeIntentId)
\* the guard that throws "You must cite a valid active Intent ID. Call
\* select_active_intent first."
LegacyValidateThrows(activeIntentId) ==
    \/ ~Truthy(activeIntentId)
    \/ Len(Trim(activeIntentId.s)) = 0

\* the intent returned when the guard passes: the block, or the stub when the
\* read throws or finds no block
LegacyValidateIntent(reg, activeIntentId) ==
    LET stub == [id |-> activeIntentId.s, owned_scope |-> << <<"*", "*">> >>,
                 has |-> {"id", "owned_scope"}]
    IN  IF reg.readable
        THEN LET block == LegacyExtractIntentBlock(reg.entries, activeIntentId.s)
             IN  IF block = NoBlock THEN stub ELSE block
        ELSE stub

\* PreHook.enforceScope: "ok", or the error it throws
EnforceScope(filePath, intent) ==
    IF "owned_scope" \notin intent.has THEN "NoScope"
    ELSE LET isValid == ScopeSome(intent.owned_scope, filePath)
         IN  CASE isValid = "match"       -> "ok"
               [] isValid = "SyntaxError" -> "SyntaxError"
               [] OTHER                   -> "ScopeViolation"

\* a plausible slip: an unlisted command falls through as Safe
ClassifyCommandDefaultSafe(command) ==
    IF command \in {"write_file", "delete_file", "execute_command"} THEN "Destructive"
    ELSE "Safe"
\* PreHook.classifyCommand
ClassifyCommand(command) ==
    IF command \in {"read_file", "list_files"} THEN "Safe"
    ELSE IF command \in {"write_file", "delete_file", "execute_command"} THEN "Destructive"
    ELSE "UnknownCommand"

\* PreHook.generateContentHash: SHA-256 of the content as given, hex encoded.
\* The digest is the tagged preimage: equal exactly for equal byte strings.
GenerateContentHash(content) == <<"sha256">> \o content

\* the traceEntry object postWriteFileHook builds (the random id and the
\* timestamp carry no information about the mutation and are left out)
TraceEntry(filePath, content, intent_id) ==
    [relative_path |-> filePath,
     content_hash  |-> GenerateContentHash(content),
     intent_id     |-> intent_id]

\* a plausible slip: writeFileSync in place of appendFileSync
WriteFileSyncTruncating(file, line) == <<line>>
\* a plausible slip: read the file, put the new line first, write it back
WriteFileSyncPrepending(file, line) == <<line>> \o file
\* fs.appendFileSync(traceFilePath, line): one synchronous append
AppendFileSync(file, line) == Append(file, line)

\* a plausible slip: compare against nothing, never report staleness
StalenessNeverDetected(current, initialHash) == "ok"
\* a plausible slip: the content itself is compared with the expected hash
StalenessComparesContent(current, initialHash) ==
    IF current # initialHash THEN "StaleFile" ELSE "ok"
\* PreHook.enforceConcurrencyControl on the content the path holds now
EnforceConcurrencyControl(current, initialHash) ==
    IF GenerateContentHash(current) # initialHash THEN "StaleFile" ELSE "ok"

(***************************************************************************)
(* State.                                                                  *)
(***************************************************************************)
VARIABLES
    registry,        \* content of .orchestration/active_intents.yaml
    activeIntentId,  \* the gatekeeper's module-level activeIntentId
    files,           \* workspace: path -> content
    ledger,          \* .orchestration/agent_trace.jsonl, one entry per line
    pc,              \* per agent: where its current call stands
    req,             \* per agent: the arguments of its current call
    outcome,         \* per agent: what the current call returned or threw
    auth,            \* per agent: the approval decision given to the current call
    invoked,         \* history, per agent: times the current call invoked its action
    appended,        \* history, per agent: entries the current call appended
    nCalls,          \* history: executeWithHooks / postWriteFileHook calls so far
    failedAppends,   \* history, per agent: appends of the current call that threw
    nAppended,       \* history: appends completed so far, by anyone
    snapshot,        \* lock manager, per agent: hash captured at read time
    check,           \* lock manager, per agent: its last commit check
    version,         \* history, per path: hash-changing writes so far
    lastWriter,      \* history, per path: who wrote it last
    nWrites,         \* history: writes so far
    lastBasis,       \* history, per path: the snapshot version the latest
                     \* hash-changing commit write was based on (a set: none or one)
    call,            \* the gate function applied last and its arguments
    ret,             \* what that application returned or threw
    ctx,             \* provider.contextProxy: activeIntentId and isIntentVerified
    sel,             \* history, per session: the best select call it has made
    toolResults,     \* per session: what the current tool call pushed
    reads            \* history, per session: registry reads of the current call

vars == <<registry, activeIntentId, files, ledger, pc, req, outcome, auth,
          invoked, appended, nCalls, failedAppends, nAppended, snapshot, check,
          version, lastWriter, nWrites, lastBasis, call, ret, ctx, sel,
          toolResults, reads>>

lockVars == <<snapshot, check, version, lastWriter, nWrites, lastBasis>>
fnVars == <<call, ret>>
sessionVars == <<ctx, sel, toolResults, reads>>
engineVars == <<registry, activeIntentId, ledger, pc, req, outcome, auth, invoked,
                appended, nCalls, failedAppends, nAppended>>

NoReq == [op |-> "none", intentId |-> Null, filePath |-> Null, content |-> Null,
          command |-> "none"]
LockAgents == Agents \cup {"C"}
NoSnapshot == [path |-> <<>>, hash |-> <<>>, version |-> 0, reacquired |-> FALSE]
NoCheck == [result |-> "none", snapVersion |-> 0, fileVersion |-> 0]

\* no gate function applied yet
NoCall == [op |-> "none", path |-> <<>>, scope |-> <<>>, id |-> Null,
           command |-> "none", content |-> <<>>, content2 |-> <<>>,
           header |-> FALSE, written |-> <<>>]
\* v: the result or the error; id, has, owned_scope: the intent returned;
\* hash: the digest returned; the fields ending in 2 hold the result of the
\* second of two applications
NoRet == [v |-> "none", id |-> <<>>, has |-> {}, owned_scope |-> <<>>, hash |-> <<>>,
          v2 |-> "none", id2 |-> <<>>, has2 |-> {}, owned_scope2 |-> <<>>,
          hash2 |-> <<>>]

Terminal == {"DONE", "BLOCKED", "FAILED"}

InitLock ==
    /\ snapshot = [a \in LockAgents |-> NoSnapshot]
    /\ check = [a \in LockAgents |-> NoCheck]
    /\ version = [p \in Paths |-> 0]
    /\ lastWriter = [p \in Paths |-> "none"]
    /\ nWrites = 0
    /\ lastBasis = [p \in Paths |-> {}]

\* the state after construction, whatever the registry file holds
InitRest ==
    /\ activeIntentId = Null
    /\ files = [p \in Paths |-> OldContent]
    /\ ledger = <<>>
    /\ pc = [a \in Agents |-> "idle"]
    /\ req = [a \in Agents |-> NoReq]
    /\ outcome = [a \in Agents |-> "none"]
    /\ auth = [a \in Agents |-> "none"]
    /\ invoked = [a \in Agents |-> 0]
    /\ appended = [a \in Agents |-> 0]
    /\ nCalls = 0
    /\ failedAppends = [a \in Agents |-> 0]
    /\ nAppended = 0
    /\ InitLock
    /\ call = NoCall
    /\ ret = NoRet
    /\ ctx = [activeIntentId |-> Null, isIntentVerified |-> FALSE]
    /\ sel = [a \in Agents |-> "none"]
    /\ toolResults = [a \in Agents |-> <<>>]
    /\ reads = [a \in Agents |-> 0]

Init == registry \in Registries /\ InitRest

(***************************************************************************)
(* select-active-intent (gatekeeper module).                               *)
(***************************************************************************)
SelectInputs == {Str(INT001), Str(UnlistedId)}

\* select_active_intent(intent_id): sets the module-level id unconditionally
SelectActiveIntentSet(id) ==
    /\ activeIntentId' = id
    /\ UNCHANGED <<registry, files, ledger, pc, req, outcome, auth, invoked,
                   appended, nCalls, failedAppends, nAppended>>
    /\ UNCHANGED <<lockVars, fnVars, sessionVars>>

\* selectActiveIntent(intentId): sets the id only if the registry lists it
SelectActiveIntent(id) ==
    /\ activeIntentId' =
          IF registry.readable /\ ExtractIntentBlock(registry.entries, id.s) # NoBlock
          THEN id ELSE activeIntentId
    /\ UNCHANGED <<registry, files, ledger, pc, req, outcome, auth, invoked,
                   appended, nCalls, failedAppends, nAppended>>
    /\ UNCHANGED <<lockVars, fnVars, sessionVars>>

(***************************************************************************)
(* HookEngine.executeWithHooks(fn, intentId, meta), one step per await.    *)
(***************************************************************************)
\* The call, up to the first await that yields. PreHook.validate runs its
\* guard synchronously: a missing id rejects at once (BLOCKED), any other id
\* leaves the call waiting for the registry file to be read (INTENT_CHECK).
ExecuteWithHooks(a, intentId, meta) ==
    /\ pc[a] = "idle"
    /\ nCalls < MaxInvocations
    /\ nCalls' = nCalls + 1
    /\ IF ValidateThrows(intentId)
       THEN /\ pc' = [pc EXCEPT ![a] = "BLOCKED"]
            /\ outcome' = [outcome EXCEPT ![a] = "MissingIntent"]
            /\ req' = [req EXCEPT ![a] = [NoReq EXCEPT !.op = "executeWithHooks",
                                                       !.intentId = intentId]]
       ELSE /\ pc' = [pc EXCEPT ![a] = "INTENT_CHECK"]
            /\ outcome' = [outcome EXCEPT ![a] = "none"]
            /\ req' = [req EXCEPT ![a] = [op |-> "executeWithHooks",
                                          intentId |-> intentId,
                                          filePath |-> meta.filePath,
                                          content |-> meta.content,
                                          command |-> meta.command]]
    /\ UNCHANGED <<registry, activeIntentId, files, ledger, auth, invoked,
                   appended, failedAppends, nAppended>>
    /\ UNCHANGED <<lockVars, fnVars, sessionVars>>

\* a plausible slip: the registry read waits until no other call is reading
ValidateResolvesExclusive(a) ==
    /\ pc[a] = "INTENT_CHECK"
    /\ \A b \in Agents \ {a} : pc[b] # "INTENT_CHECK"
    /\ pc' = [pc EXCEPT ![a] = "EXECUTING"]
    /\ invoked' = [invoked EXCEPT ![a] = @ + 1]
    /\ UNCHANGED <<registry, activeIntentId, files, ledger, req, outcome, auth,
                   appended, nCalls, failedAppends, nAppended>>
    /\ UNCHANGED <<lockVars, fnVars, sessionVars>>

\* await PreHook.validate(intentId) resolves (a registry entry or the
\* permissive stub, never an error); the result is dropped and fn() is called
ValidateResolves(a) ==
    /\ pc[a] = "INTENT_CHECK"
    /\ pc' = [pc EXCEPT ![a] = "EXECUTING"]
    /\ invoked' = [invoked EXCEPT ![a] = @ + 1]
    /\ UNCHANGED <<registry, activeIntentId, files, ledger, req, outcome, auth,
                   appended, nCalls, failedAppends, nAppended>>
    /\ UNCHANGED <<lockVars, fnVars, sessionVars>>

\* meta?.filePath && meta?.content
WantsLog(r) == Truthy(r.filePath) /\ Truthy(r.content)

\* the call is over: which operation it was and its intent id are kept
Finished(r) == [NoReq EXCEPT !.op = r.op, !.intentId = r.intentId]

\* const result = await fn(): the action returns, the workspace is mutated
\* (the action is the caller's; its effect is counted, not interpreted)
ActionReturns(a) ==
    /\ pc[a] = "EXECUTING"
    /\ IF WantsLog(req[a])
       THEN /\ pc' = [pc EXCEPT ![a] = "LOGGING"]
            /\ outcome' = outcome
            /\ req' = req
       ELSE /\ pc' = [pc EXCEPT ![a] = "DONE"]
            /\ outcome' = [outcome EXCEPT ![a] = "ok"]
            /\ req' = [req EXCEPT ![a] = Finished(@)]
    /\ UNCHANGED <<registry, activeIntentId, files, ledger, auth, invoked,
                   appended, nCalls, failedAppends, nAppended>>
    /\ UNCHANGED <<lockVars, fnVars, sessionVars>>

\* a plausible slip: the log call sits in a finally block
ActionThrowsThenLogs(a) ==
    /\ pc[a] = "EXECUTING"
    /\ pc' = [pc EXCEPT ![a] = "LOGGING"]
    /\ outcome' = [outcome EXCEPT ![a] = "ActionError"]
    /\ UNCHANGED <<registry, activeIntentId, files, ledger, req, auth, invoked,
                   appended, nCalls, failedAppends, nAppended>>
    /\ UNCHANGED <<lockVars, fnVars, sessionVars>>

\* const result = await fn(): the action throws, nothing catches it
ActionThrows(a) ==
    /\ pc[a] = "EXECUTING"
    /\ pc' = [pc EXCEPT ![a] = "FAILED"]
    /\ outcome' = [outcome EXCEPT ![a] = "ActionError"]
    /\ req' = [req EXCEPT ![a] = Finished(@)]
    /\ UNCHANGED <<registry, activeIntentId, files, ledger, auth, invoked,
                   appended, nCalls, failedAppends, nAppended>>
    /\ UNCHANGED <<lockVars, fnVars, sessionVars>>

\* a plausible slip: the entry cites the active intent, not the call's own id
LogAppendsCitingActive(a) ==
    /\ pc[a] = "LOGGING"
    /\ ledger' = AppendFileSync(ledger,
                    TraceEntry(req[a].filePath.s, req[a].content.s, activeIntentId.s))
    /\ appended' = [appended EXCEPT ![a] = @ + 1]
    /\ nAppended' = nAppended + 1
    /\ pc' = [pc EXCEPT ![a] = "DONE"]
    /\ outcome' = [outcome EXCEPT ![a] = "ok"]
    /\ req' = [req EXCEPT ![a] = Finished(@)]
    /\ UNCHANGED <<registry, activeIntentId, files, auth, invoked,
                   nCalls, failedAppends>>
    /\ UNCHANGED <<lockVars, fnVars, sessionVars>>

\* await PostHook.log({filePath, content, intentId, ...}): the append succeeds
LogAppends(a) ==
    /\ pc[a] = "LOGGING"
    /\ ledger' = AppendFileSync(ledger,
                    TraceEntry(req[a].filePath.s, req[a].content.s, req[a].intentId.s))
    /\ appended' = [appended EXCEPT ![a] = @ + 1]
    /\ nAppended' = nAppended + 1
    /\ pc' = [pc EXCEPT ![a] = "DONE"]
    /\ outcome' = [outcome EXCEPT ![a] = "ok"]
    /\ req' = [req EXCEPT ![a] = Finished(@)]
    /\ UNCHANGED <<registry, activeIntentId, files, auth, invoked,
                   nCalls, failedAppends>>
    /\ UNCHANGED <<lockVars, fnVars, sessionVars>>

\* a plausible slip: the append sits in a try/catch that only warns
LogFailsSwallowed(a) ==
    /\ pc[a] = "LOGGING"
    /\ pc' = [pc EXCEPT ![a] = "DONE"]
    /\ outcome' = [outcome EXCEPT ![a] = "ok"]
    /\ failedAppends' = [failedAppends EXCEPT ![a] = @ + 1]
    /\ UNCHANGED <<registry, activeIntentId, files, ledger, req, auth, invoked,
                   appended, nCalls, nAppended>>
    /\ UNCHANGED <<lockVars, fnVars, sessionVars>>

\* await PostHook.log(...): appendFileSync throws, nothing catches it
LogFails(a) ==
    /\ pc[a] = "LOGGING"
    /\ pc' = [pc EXCEPT ![a] = "FAILED"]
    /\ outcome' = [outcome EXCEPT ![a] = "LedgerWriteFailure"]
    /\ req' = [req EXCEPT ![a] = Finished(@)]
    /\ failedAppends' = [failedAppends EXCEPT ![a] = @ + 1]
    /\ UNCHANGED <<registry, activeIntentId, files, ledger, auth, invoked,
                   appended, nCalls, nAppended>>
    /\ UNCHANGED <<lockVars, fnVars, sessionVars>>

\* the caller has the result or the error; the agent is free for its next call
Return(a) ==
    /\ pc[a] \in Terminal \cup {"RETURNED"}
    /\ pc' = [pc EXCEPT ![a] = "idle"]
    /\ req' = [req EXCEPT ![a] = NoReq]
    /\ outcome' = [outcome EXCEPT ![a] = "none"]
    /\ auth' = [auth EXCEPT ![a] = "none"]
    /\ invoked' = [invoked EXCEPT ![a] = 0]
    /\ appended' = [appended EXCEPT ![a] = 0]
    /\ failedAppends' = [failedAppends EXCEPT ![a] = 0]
    /\ UNCHANGED <<registry, activeIntentId, files, ledger, nCalls, nAppended>>
    /\ UNCHANGED <<lockVars, fnVars, sessionVars>>

(***************************************************************************)
(* The gate and the logger called on their own (PreHook's static methods). *)
(* Each ends in pc = "RETURNED" with what it returned or threw in outcome. *)
(***************************************************************************)
GateReturn(a, op, result) ==
    /\ pc[a] = "idle"
    /\ pc' = [pc EXCEPT ![a] = "RETURNED"]
    /\ req' = [req EXCEPT ![a] = [NoReq EXCEPT !.op = op]]
    /\ outcome' = [outcome EXCEPT ![a] = result]

\* a plausible slip: validate keeps the id it accepted as the active intent
ValidateCallRemembers(a, intentId) ==
    /\ GateReturn(a, "validate",
                  IF ValidateThrows(intentId) THEN "MissingIntent"
                  ELSE IF ValidateIntent(registry, intentId).has = AllIntentFields
                       THEN "resolved" ELSE "stub")
    /\ activeIntentId' = IF ValidateThrows(intentId) THEN activeIntentId ELSE intentId
    /\ UNCHANGED <<registry, files, ledger, auth, invoked,
                   appended, nCalls, failedAppends, nAppended>>
    /\ UNCHANGED <<lockVars, fnVars, sessionVars>>

\* PreHook.validate(activeIntentId)
ValidateCall(a, intentId) ==
    /\ GateReturn(a, "validate",
                  IF ValidateThrows(intentId) THEN "MissingIntent"
                  ELSE IF ValidateIntent(registry, intentId).has = AllIntentFields
                       THEN "resolved" ELSE "stub")
    /\ UNCHANGED <<registry, activeIntentId, files, ledger, auth, invoked,
                   appended, nCalls, failedAppends, nAppended>>
    /\ UNCHANGED <<lockVars, fnVars, sessionVars>>

\* PreHook.enforceScope(filePath, intent), intent as validate returned it
EnforceScopeCall(a, filePath, intentId) ==
    /\ ~ValidateThrows(intentId)
    /\ GateReturn(a, "enforceScope",
                  EnforceScope(filePath, ValidateIntent(registry, intentId)))
    /\ UNCHANGED <<registry, activeIntentId, files, ledger, auth, invoked,
                   appended, nCalls, failedAppends, nAppended>>
    /\ UNCHANGED <<lockVars, fnVars, sessionVars>>

\* a plausible slip: every command that is not Safe is put to the user
AuthorizeCommandPromptsUnlisted(a, command) ==
    /\ pc[a] = "idle"
    /\ LET class == ClassifyCommand(command) IN
       /\ pc' = [pc EXCEPT ![a] = IF class # "Safe" THEN "AUTH_WAIT" ELSE "RETURNED"]
       /\ outcome' = [outcome EXCEPT ![a] = IF class = "Safe" THEN "granted" ELSE "none"]
       /\ auth' = [auth EXCEPT ![a] = IF class # "Safe" THEN "pending" ELSE "none"]
    /\ req' = [req EXCEPT ![a] = [NoReq EXCEPT !.op = "authorizeCommand",
                                               !.command = command]]
    /\ UNCHANGED <<registry, activeIntentId, files, ledger, invoked, appended,
                   nCalls, failedAppends, nAppended>>
    /\ UNCHANGED <<lockVars, fnVars, sessionVars>>

\* PreHook.authorizeCommand(command) up to its await: unlisted commands throw,
\* Safe ones are granted at once, Destructive ones wait for the modal prompt
AuthorizeCommand(a, command) ==
    /\ pc[a] = "idle"
    /\ LET class == ClassifyCommand(command) IN
       /\ pc' = [pc EXCEPT ![a] = IF class = "Destructive" THEN "AUTH_WAIT"
                                  ELSE "RETURNED"]
       /\ outcome' = [outcome EXCEPT ![a] =
                         CASE class = "UnknownCommand" -> "UnknownCommand"
                           [] class = "Safe"           -> "granted"
                           [] OTHER                    -> "none"]
       /\ auth' = [auth EXCEPT ![a] = IF class = "Destructive" THEN "pending"
                                      ELSE "none"]
    /\ req' = [req EXCEPT ![a] = [NoReq EXCEPT !.op = "authorizeCommand",
                                               !.command = command]]
    /\ UNCHANGED <<registry, activeIntentId, files, ledger, invoked, appended,
                   nCalls, failedAppends, nAppended>>
    /\ UNCHANGED <<lockVars, fnVars, sessionVars>>

UserResponses == {"Approve", "Reject", "dismissed"}

\* a plausible slip: return userResponse !== "Reject"
UserRespondsNotReject(a, response) ==
    /\ pc[a] = "AUTH_WAIT"
    /\ pc' = [pc EXCEPT ![a] = "RETURNED"]
    /\ auth' = [auth EXCEPT ![a] = response]
    /\ outcome' = [outcome EXCEPT ![a] = IF response # "Reject" THEN "granted"
                                         ELSE "denied"]
    /\ UNCHANGED <<registry, activeIntentId, files, ledger, req, invoked,
                   appended, nCalls, failedAppends, nAppended>>
    /\ UNCHANGED <<lockVars, fnVars, sessionVars>>

\* the prompt resolves: return userResponse === "Approve"
UserResponds(a, response) ==
    /\ pc[a] = "AUTH_WAIT"
    /\ pc' = [pc EXCEPT ![a] = "RETURNED"]
    /\ auth' = [auth EXCEPT ![a] = response]
    /\ outcome' = [outcome EXCEPT ![a] = IF response = "Approve" THEN "granted"
                                         ELSE "denied"]
    /\ UNCHANGED <<registry, activeIntentId, files, ledger, req, invoked,
                   appended, nCalls, failedAppends, nAppended>>
    /\ UNCHANGED <<lockVars, fnVars, sessionVars>>

\* PreHook.enforceConcurrencyControl(filePath, initialHash)
EnforceConcurrencyControlCall(a, filePath, initialHash) ==
    /\ GateReturn(a, "enforceConcurrencyControl",
                  EnforceConcurrencyControl(files[filePath], initialHash))
    /\ UNCHANGED <<registry, activeIntentId, files, ledger, auth, invoked,
                   appended, nCalls, failedAppends, nAppended>>
    /\ UNCHANGED <<lockVars, fnVars, sessionVars>>

\* PreHook.postWriteFileHook(writeFileData): the append succeeds
PostWriteFileHook(a, filePath, content, intent_id) ==
    /\ nCalls < MaxInvocations
    /\ pc[a] = "idle"
    /\ pc' = [pc EXCEPT ![a] = "RETURNED"]
    /\ req' = [req EXCEPT ![a] = [op |-> "postWriteFileHook",
                                  intentId |-> Str(intent_id),
                                  filePath |-> Str(filePath),
                                  content |-> Str(content),
                                  command |-> "none"]]
    /\ outcome' = [outcome EXCEPT ![a] = "ok"]
    /\ ledger' = AppendFileSync(ledger, TraceEntry(filePath, content, intent_id))
    /\ appended' = [appended EXCEPT ![a] = @ + 1]
    /\ nCalls' = nCalls + 1
    /\ nAppended' = nAppended + 1
    /\ UNCHANGED <<registry, activeIntentId, files, auth, invoked, failedAppends>>
    /\ UNCHANGED <<lockVars, fnVars, sessionVars>>

\* PreHook.postWriteFileHook(writeFileData): appendFileSync throws
PostWriteFileHookFails(a) ==
    /\ nCalls < MaxInvocations
    /\ GateReturn(a, "postWriteFileHook", "LedgerWriteFailure")
    /\ nCalls' = nCalls + 1
    /\ failedAppends' = [failedAppends EXCEPT ![a] = @ + 1]
    /\ UNCHANGED <<registry, activeIntentId, files, ledger, auth, invoked,
                   appended, nAppended>>
    /\ UNCHANGED <<lockVars, fnVars, sessionVars>>

HashInputs == {GenerateContentHash(OldContent), GenerateContentHash(NewContent)}

(***************************************************************************)
(* The gatekeeper's executePreHook, and classifyCommand called on its own.  *)
(***************************************************************************)
ToolNames == {"write_to_file", "execute_command", "write_file", "delete_file",
              "read_file"}

\* what no session operation touches
sessionFrame == <<registry, files, ledger, auth, invoked, appended, nCalls,
                  failedAppends, nAppended, lockVars, fnVars>>

\* a synchronous call of session a returns or throws
SessionReturns(a, op, id, command, result) ==
    /\ pc[a] = "idle"
    /\ pc' = [pc EXCEPT ![a] = "RETURNED"]
    /\ req' = [req EXCEPT ![a] = [NoReq EXCEPT !.op = op, !.intentId = id,
                                               !.command = command]]
    /\ outcome' = [outcome EXCEPT ![a] = result]

\* the tool names executePreHook asks an active intent for
GatedTools == {"write_to_file", "execute_command"}

\* executePreHook(toolName, params)
ExecutePreHook(a, toolName) ==
    /\ SessionReturns(a, "executePreHook", Null, toolName,
                       IF toolName \in GatedTools
                          /\ ~Truthy(activeIntentId)
                       THEN "GovernanceViolation" ELSE "ok")
    /\ UNCHANGED <<activeIntentId, sessionVars, sessionFrame>>

\* PreHook.classifyCommand(command)
ClassifyCommandCall(a, command) ==
    /\ GateReturn(a, "classifyCommand", ClassifyCommand(command))
    /\ UNCHANGED <<registry, activeIntentId, files, ledger, auth, invoked,
                   appended, nCalls, failedAppends, nAppended>>
    /\ UNCHANGED <<lockVars, fnVars, sessionVars>>

Next ==
    \/ \E id \in SelectInputs : SelectActiveIntentSet(id)
    \/ \E id \in SelectInputs : SelectActiveIntent(id)
    \/ \E a \in Agents, id \in IntentIdInputs \cup {activeIntentId}, m \in MetaInputs :
          ExecuteWithHooks(a, id, m)
    \/ \E a \in Agents : ValidateResolves(a)
    \/ \E a \in Agents : ActionReturns(a)
    \/ \E a \in Agents : ActionThrows(a)
    \/ \E a \in Agents : LogAppends(a)
    \/ \E a \in Agents : LogFails(a)
    \/ \E a \in Agents : Return(a)
    \/ \E a \in Agents, id \in IntentIdInputs : ValidateCall(a, id)
    \/ \E a \in Agents, p \in Paths, id \in IntentIdInputs : EnforceScopeCall(a, p, id)
    \/ \E a \in Agents, cmd \in CommandInputs : AuthorizeCommand(a, cmd)
    \/ \E a \in Agents, r \in UserResponses : UserResponds(a, r)
    \/ \E a \in Agents, p \in Paths, h \in HashInputs :
          EnforceConcurrencyControlCall(a, p, h)
    \/ \E a \in Agents, p \in Paths : PostWriteFileHook(a, p, NewContent, INT001)
    \/ \E a \in Agents : PostWriteFileHookFails(a)

Spec == Init /\ [][Next]_vars

(***************************************************************************)
(* The gate checks on their own, next to the operations that do change the  *)
(* active intent and the ledger.                                            *)
(***************************************************************************)
GateNext ==
    \/ \E id \in SelectInputs : SelectActiveIntentSet(id)
    \/ \E a \in Agents, id \in IntentIdInputs : ValidateCall(a, id)
    \/ \E a \in Agents, p \in Paths, id \in IntentIdInputs : EnforceScopeCall(a, p, id)
    \/ \E a \in Agents, cmd \in CommandInputs : ClassifyCommandCall(a, cmd)
    \/ \E a \in Agents, cmd \in CommandInputs : AuthorizeCommand(a, cmd)
    \/ \E a \in Agents, r \in UserResponses : UserResponds(a, r)
    \/ \E a \in Agents, p \in Paths, h \in HashInputs :
          EnforceConcurrencyControlCall(a, p, h)
    \/ \E a \in Agents, t \in ToolNames : ExecutePreHook(a, t)
    \/ \E a \in Agents, p \in Paths : PostWriteFileHook(a, p, NewContent, INT001)
    \/ \E a \in Agents : Return(a)

GateSpec == Init /\ [][GateNext]_vars

(***************************************************************************)
(* The engine under fair scheduling: every pending await settles.  The      *)
(* registry read and the ledger append are the runtime's; that the wrapped  *)
(* action returns or throws, and that an approval prompt is answered or     *)
(* dismissed, is assumed of the caller and of the user.                     *)
(***************************************************************************)
LiveNext ==
    \/ \E a \in Agents, id \in IntentIdInputs, m \in MetaInputs :
          ExecuteWithHooks(a, id, m)
    \/ \E a \in Agents : ValidateResolves(a)
    \/ \E a \in Agents : ActionReturns(a)
    \/ \E a \in Agents : ActionThrows(a)
    \/ \E a \in Agents : LogAppends(a)
    \/ \E a \in Agents : LogFails(a)
    \/ \E a \in Agents : Return(a)
    \/ \E a \in Agents, cmd \in CommandInputs : AuthorizeCommand(a, cmd)
    \/ \E a \in Agents, r \in UserResponses : UserResponds(a, r)
    \/ \E a \in Agents, p \in Paths, h \in HashInputs :
          EnforceConcurrencyControlCall(a, p, h)

Fairness ==
    \A a \in Agents :
        /\ WF_vars(ValidateResolves(a))
        /\ WF_vars(ActionReturns(a) \/ ActionThrows(a))
        /\ WF_vars(LogAppends(a) \/ LogFails(a))
        /\ WF_vars(\E r \in UserResponses : UserResponds(a, r))

LiveSpec == Init /\ [][LiveNext]_vars /\ Fairness

(***************************************************************************)
(* Lock manager: optimistic concurrency over one workspace.  acquire and   *)
(* the write that follows a passed check are the callers' steps; the check *)
(* is PreHook.enforceConcurrencyControl.                                   *)
(***************************************************************************)
WriteContents == {NewContent, <<"y">>}
\* the files agents contend for
LockPaths == {SrcCoreFoo}

\* acquire(path): the hash of the content as read now
Acquire(a, p) ==
    /\ snapshot' = [snapshot EXCEPT ![a] =
                      [path |-> p, hash |-> GenerateContentHash(files[p]),
                       version |-> version[p],
                       reacquired |-> check[a].result = "StaleFile"
                                      /\ snapshot[a].path = p]]
    /\ check' = [check EXCEPT ![a] = NoCheck]
    /\ UNCHANGED <<files, version, lastWriter, nWrites, lastBasis>>
    /\ UNCHANGED <<engineVars, fnVars, sessionVars>>

\* commit(path, snapshot): enforceConcurrencyControl(path, snapshot.hash)
CommitCheck(a) ==
    /\ snapshot[a] # NoSnapshot
    /\ check' = [check EXCEPT ![a] =
                   [result |-> EnforceConcurrencyControl(files[snapshot[a].path],
                                                         snapshot[a].hash),
                    snapVersion |-> snapshot[a].version,
                    fileVersion |-> version[snapshot[a].path]]]
    /\ UNCHANGED <<files, snapshot, version, lastWriter, nWrites, lastBasis>>
    /\ UNCHANGED <<engineVars, fnVars, sessionVars>>

WriteFile(who, p, c) ==
    /\ nWrites < MaxWrites
    /\ files' = [files EXCEPT ![p] = c]
    /\ version' = [version EXCEPT ![p] = IF GenerateContentHash(c)
                                             # GenerateContentHash(files[p])
                                          THEN @ + 1 ELSE @]
    /\ lastWriter' = [lastWriter EXCEPT ![p] = who]
    /\ nWrites' = nWrites + 1

\* the agent's check passed and it writes; its snapshot is used up
CommitWrite(a, c) ==
    /\ check[a].result = "ok"
    /\ WriteFile(a, snapshot[a].path, c)
    /\ lastBasis' = [lastBasis EXCEPT ![snapshot[a].path] =
                          IF GenerateContentHash(c) # GenerateContentHash(files[snapshot[a].path])
                          THEN {snapshot[a].version} ELSE @]
    /\ snapshot' = [snapshot EXCEPT ![a] = NoSnapshot]
    /\ check' = [check EXCEPT ![a] = NoCheck]
    /\ UNCHANGED <<engineVars, fnVars, sessionVars>>

\* the user edits the file in the editor, outside the gate
UserWrite(p, c) ==
    /\ WriteFile("user", p, c)
    /\ UNCHANGED <<snapshot, check, lastBasis>>
    /\ UNCHANGED <<engineVars, fnVars, sessionVars>>

LockNext ==
    \/ \E a \in LockAgents, p \in LockPaths : Acquire(a, p)
    \/ \E a \in LockAgents : CommitCheck(a)
    \/ \E a \in LockAgents, c \in WriteContents : CommitWrite(a, c)
    \/ \E p \in LockPaths, c \in WriteContents : UserWrite(p, c)

LockInit == Init /\ registry = RegistryTwo

LockSpec == LockInit /\ [][LockNext]_vars

(***************************************************************************)
(* Sessions: the select-active-intent entry points and the gatekeeper's    *)
(* executePreHook, called by two sessions that share the process.          *)
(***************************************************************************)
\* the registry can be read and has an entry for the id
IsListed(reg, id) ==
    reg.readable /\ \E k \in 1..Len(reg.entries) : reg.entries[k].id = id.s

\* history: session a has made a select call with this id
Selected(a, id) ==
    [sel EXCEPT ![a] = IF IsListed(registry, id) THEN "listed"
                       ELSE IF @ = "listed" THEN "listed" ELSE "unlisted"]

\* select_active_intent(intent_id), called by session a
SelectActiveIntentSetBy(a, id) ==
    /\ SessionReturns(a, "select_active_intent", id, "none", "descriptor")
    /\ activeIntentId' = id
    /\ sel' = Selected(a, id)
    /\ UNCHANGED <<ctx, toolResults, reads, sessionFrame>>

\* selectActiveIntent(intentId) up to its await: the registry file is read
SelectActiveIntentCall(a, id) ==
    /\ pc[a] = "idle"
    /\ pc' = [pc EXCEPT ![a] = "SELECT_READ"]
    /\ req' = [req EXCEPT ![a] = [NoReq EXCEPT !.op = "selectActiveIntent",
                                               !.intentId = id]]
    /\ reads' = [reads EXCEPT ![a] = @ + 1]
    /\ UNCHANGED <<activeIntentId, outcome, ctx, sel, toolResults, sessionFrame>>

\* a plausible slip: a failed activation clears the active intent
SelectActiveIntentSettlesClearing(a) ==
    /\ pc[a] = "SELECT_READ"
    /\ pc' = [pc EXCEPT ![a] = "RETURNED"]
    /\ LET found == registry.readable
                     /\ LegacyExtractIntentBlock(registry.entries, req[a].intentId.s) # NoBlock
       IN  /\ activeIntentId' = IF found THEN req[a].intentId ELSE Null
           /\ outcome' = [outcome EXCEPT ![a] = IF found THEN "success" ELSE "error"]
           /\ sel' = IF found THEN Selected(a, req[a].intentId) ELSE sel
    /\ UNCHANGED <<req, ctx, toolResults, reads, sessionFrame>>

\* selectActiveIntent(intentId) after the read: the id is activated if the
\* file could be read and lists it; any failure returns success: false
SelectActiveIntentSettles(a) ==
    /\ pc[a] = "SELECT_READ"
    /\ pc' = [pc EXCEPT ![a] = "RETURNED"]
    /\ LET found == registry.readable
                     /\ LegacyExtractIntentBlock(registry.entries, req[a].intentId.s) # NoBlock
       IN  /\ activeIntentId' = IF found THEN req[a].intentId ELSE activeIntentId
           /\ outcome' = [outcome EXCEPT ![a] = IF found THEN "success" ELSE "error"]
           /\ sel' = IF found THEN Selected(a, req[a].intentId) ELSE sel
    /\ UNCHANGED <<req, ctx, toolResults, reads, sessionFrame>>

\* PreHook.selectActiveIntent(intentId): validate is async and is not
\* awaited, so its rejection never reaches the catch; the pending promise is
\* stringified into the descriptor
PreHookSelectActiveIntent(a, id) ==
    /\ SessionReturns(a, "PreHook.selectActiveIntent", id, "none", "descriptor")
    /\ sel' = Selected(a, id)
    /\ UNCHANGED <<activeIntentId, ctx, toolResults, reads, sessionFrame>>

MissingIntentIdResult == "error: missing intent_id"

\* a plausible slip: the missing-id branch does not return
ToolExecuteFallsThrough(a, id) ==
    /\ pc[a] = "idle"
    /\ req' = [req EXCEPT ![a] = [NoReq EXCEPT !.op = "SelectActiveIntentTool.execute",
                                               !.intentId = id]]
    /\ pc' = [pc EXCEPT ![a] = "TOOL_READ"]
    /\ toolResults' = [toolResults EXCEPT ![a] =
                           IF Truthy(id) THEN @ ELSE Append(@, MissingIntentIdResult)]
    /\ reads' = [reads EXCEPT ![a] = @ + 1]
    /\ UNCHANGED outcome
    /\ UNCHANGED <<activeIntentId, ctx, sel, sessionFrame>>

\* SelectActiveIntentTool.execute(params, task, callbacks) up to its first
\* await: a falsy intent_id pushes the error result and returns; any other
\* id starts the read of the registry file
ToolExecute(a, id) ==
    /\ pc[a] = "idle"
    /\ req' = [req EXCEPT ![a] = [NoReq EXCEPT !.op = "SelectActiveIntentTool.execute",
                                               !.intentId = id]]
    /\ IF ~Truthy(id)
       THEN /\ pc' = [pc EXCEPT ![a] = "RETURNED"]
            /\ toolResults' = [toolResults EXCEPT ![a] = Append(@, MissingIntentIdResult)]
            /\ outcome' = [outcome EXCEPT ![a] = "error"]
            /\ UNCHANGED reads
       ELSE /\ pc' = [pc EXCEPT ![a] = "TOOL_READ"]
            /\ reads' = [reads EXCEPT ![a] = @ + 1]
            /\ UNCHANGED <<toolResults, outcome>>
    /\ UNCHANGED <<activeIntentId, ctx, sel, sessionFrame>>

\* the read settles (a failed read leaves raw = ""): the intent is the
\* listed block or the permissive stub, and its id is stored in the
\* provider's context
ToolReadSettles(a) ==
    /\ pc[a] = "TOOL_READ"
    /\ pc' = [pc EXCEPT ![a] = "TOOL_PERSIST"]
    /\ ctx' = [ctx EXCEPT !.activeIntentId = req[a].intentId]
    /\ sel' = Selected(a, req[a].intentId)
    /\ UNCHANGED <<activeIntentId, req, outcome, toolResults, reads, sessionFrame>>

\* isIntentVerified is set to true and the descriptor is pushed
ToolVerifies(a) ==
    /\ pc[a] = "TOOL_PERSIST"
    /\ pc' = [pc EXCEPT ![a] = "RETURNED"]
    /\ ctx' = [ctx EXCEPT !.isIntentVerified = TRUE]
    /\ toolResults' = [toolResults EXCEPT ![a] = Append(@, "descriptor")]
    /\ outcome' = [outcome EXCEPT ![a] = "descriptor"]
    /\ UNCHANGED <<activeIntentId, req, sel, reads, sessionFrame>>

\* the caller takes the result; the session is ready for its next call
SessionReturn(a) ==
    /\ pc[a] = "RETURNED"
    /\ pc' = [pc EXCEPT ![a] = "idle"]
    /\ req' = [req EXCEPT ![a] = NoReq]
    /\ outcome' = [outcome EXCEPT ![a] = "none"]
    /\ toolResults' = [toolResults EXCEPT ![a] = <<>>]
    /\ reads' = [reads EXCEPT ![a] = 0]
    /\ UNCHANGED <<activeIntentId, ctx, sel, sessionFrame>>

SessionNext ==
    \/ \E a \in Agents, t \in ToolNames : ExecutePreHook(a, t)
    \/ \E a \in Agents, id \in IntentIdInputs : SelectActiveIntentSetBy(a, id)
    \/ \E a \in Agents, id \in IntentIdInputs : SelectActiveIntentCall(a, id)
    \/ \E a \in Agents : SelectActiveIntentSettles(a)
    \/ \E a \in Agents, id \in IntentIdInputs : PreHookSelectActiveIntent(a, id)
    \/ \E a \in Agents, id \in IntentIdInputs : ToolExecute(a, id)
    \/ \E a \in Agents : ToolReadSettles(a)
    \/ \E a \in Agents : ToolVerifies(a)
    \/ \E a \in Agents : SessionReturn(a)

SessionSpec == Init /\ [][SessionNext]_vars

(***************************************************************************)
(* The gate's functions applied to arguments drawn from bounded sets:      *)
(* one application per behaviour; call holds the function and its         *)
(* arguments, ret what it returned or threw.                               *)
(***************************************************************************)
PathChars == {"a", "/", ".", "+"}
PatternChars == PathChars \cup {"*"}
SeqsUpTo(S, n) == UNION { [1..k -> S] : k \in 1..n }

\* a relative path: no empty segment
IsRelPath(cs) ==
    /\ cs # <<>>
    /\ cs[1] # "/" /\ cs[Len(cs)] # "/"
    /\ \A i \in 1..(Len(cs) - 1) : ~(cs[i] = "/" /\ cs[i + 1] = "/")

\* a glob as a registry declares it: a relative path in which "**" only
\* stands as a whole segment
IsGlob(cs) ==
    /\ IsRelPath(cs)
    /\ \A i \in 1..(Len(cs) - 1) :
          (cs[i] = "*" /\ cs[i + 1] = "*")
          => /\ (i = 1 \/ cs[i - 1] = "/")
             /\ (i + 1 = Len(cs) \/ cs[i + 2] = "/")

SrcCoreABC == <<"s","r","c","/","c","o","r","e","/","a","/","b","/","c",".","t","x","t">>
DoubleStar == <<"*", "*">>

PathInputs ==
    { cs \in SeqsUpTo(PathChars, MaxPathLen) : IsRelPath(cs) }
        \cup {SrcCoreFoo, DocsReadme, SrcCoreABC}
PatternInputs ==
    { cs \in SeqsUpTo(PatternChars, MaxPatLen) : IsGlob(cs) }
        \cup {SrcCoreGlob, DocsGlob}
\* owned_scope lists: none, one pattern, and a few of two patterns
ScopeInputs ==
    { <<>> } \cup { <<pat>> : pat \in PatternInputs }
        \cup { <<SrcCoreGlob, DocsGlob>>, <<DocsGlob, SrcCoreGlob>>,
                << <<"a">>, <<"+">> >>, << <<"+">>, <<"a">> >> }

\* a registry whose one entry declares owned_scope ["**"] and nothing else
RegistryStar ==
    [readable |-> TRUE,
     entries  |-> << [id |-> INT001, owned_scope |-> <<DoubleStar>>] >>]
FnRegistries == Registries \cup {RegistryStar}
FnCommandInputs ==
    {"read_file", "list_files", "write_file", "delete_file", "execute_command",
     "frobnicate", "READ_FILE", "read_files", ""}

\* PreHook.enforceScope(filePath, intent) for a resolved intent
EnforceScopeApply(filePath, owned_scope) ==
    /\ call = NoCall
    /\ call' = [NoCall EXCEPT !.op = "enforceScope", !.path = filePath,
                               !.scope = owned_scope]
    /\ ret' = [NoRet EXCEPT !.v =
                  EnforceScope(filePath, [id |-> INT001, owned_scope |-> owned_scope,
                                          has |-> AllIntentFields])]
    /\ UNCHANGED <<engineVars, files, lockVars, sessionVars>>

\* PreHook.validate(activeIntentId): the error or the intent it resolves to
ValidateApply(id) ==
    /\ call = NoCall
    /\ call' = [NoCall EXCEPT !.op = "validate", !.id = id]
    /\ ret' = IF ValidateThrows(id) THEN [NoRet EXCEPT !.v = "MissingIntent"]
               ELSE LET intent == ValidateIntent(registry, id)
                    IN  [NoRet EXCEPT !.v = "intent", !.id = intent.id,
                                      !.has = intent.has,
                                      !.owned_scope = intent.owned_scope]
    /\ UNCHANGED <<engineVars, files, lockVars, sessionVars>>

\* the same id given to PreHook.validate and to the validate part_002 keeps
ValidateBothApply(id) ==
    /\ call = NoCall
    /\ call' = [NoCall EXCEPT !.op = "validate;legacy", !.id = id]
    /\ LET r1 == IF ValidateThrows(id) THEN [NoRet EXCEPT !.v = "MissingIntent"]
                 ELSE LET intent == ValidateIntent(registry, id)
                      IN  [NoRet EXCEPT !.v = "intent", !.id = intent.id,
                                        !.has = intent.has,
                                        !.owned_scope = intent.owned_scope]
       IN  ret' = IF LegacyValidateThrows(id) THEN [r1 EXCEPT !.v2 = "MissingIntent"]
                  ELSE LET legacy == LegacyValidateIntent(registry, id)
                       IN  [r1 EXCEPT !.v2 = "intent", !.id2 = legacy.id,
                                      !.has2 = legacy.has,
                                      !.owned_scope2 = legacy.owned_scope]
    /\ UNCHANGED <<engineVars, files, lockVars, sessionVars>>

\* enforceScope(filePath, await PreHook.validate(id))
ValidateThenEnforceScope(id, filePath) ==
    /\ call = NoCall
    /\ ~ValidateThrows(id)
    /\ call' = [NoCall EXCEPT !.op = "validate;enforceScope", !.id = id,
                               !.path = filePath]
    /\ ret' = [NoRet EXCEPT !.v = EnforceScope(filePath, ValidateIntent(registry, id))]
    /\ UNCHANGED <<engineVars, files, lockVars, sessionVars>>

\* PreHook.classifyCommand(command)
ClassifyCommandApply(command) ==
    /\ call = NoCall
    /\ call' = [NoCall EXCEPT !.op = "classifyCommand", !.command = command]
    /\ ret' = [NoRet EXCEPT !.v = ClassifyCommand(command)]
    /\ UNCHANGED <<engineVars, files, lockVars, sessionVars>>

\* (the guard of every function application is tested before its arguments
\* are drawn)
ContentChars == {"a", " ", "\r", "\n"}
ContentInputs == {<<>>} \cup SeqsUpTo(ContentChars, MaxContentLen)

\* PreHook.generateContentHash applied to two contents
GenerateContentHashApply(content, content2) ==
    /\ call = NoCall
    /\ call' = [NoCall EXCEPT !.op = "generateContentHash", !.content = content,
                               !.content2 = content2]
    /\ ret' = [NoRet EXCEPT !.hash = GenerateContentHash(content),
                             !.hash2 = GenerateContentHash(content2)]
    /\ UNCHANGED <<engineVars, files, lockVars, sessionVars>>

(***************************************************************************)
(* extractIntentBlock on the text of active_intents.yaml.  A text is a      *)
(* sequence of tokens: single characters, and each key with its colon       *)
(* ("id:", "owned_scope:", ...) as one token.                               *)
(***************************************************************************)
Quote == "\""

\* [a-z_]+: at the start of a line
IsKey(tok) ==
    tok \in {"active_intents:", "id:", "name:", "status:", "owned_scope:",
             "constraints:", "acceptance_criteria:"}

\* \s* from position i: the first position that holds no white space
SetMax(S) == CHOOSE x \in S : \A y \in S : y <= x
SetMin(S) == CHOOSE x \in S : \A y \in S : x <= y

SkipWs(t, i) ==
    CHOOSE j \in i..(Len(t) + 1) :
        /\ j = Len(t) + 1 \/ ~IsWhiteSpace(t[j])
        /\ \A k \in i..(j - 1) : IsWhiteSpace(t[k])

\* /\n\s*-\s+id:\s*/ matched at position i: the position after the match,
\* or 0 if it does not match there
SepEnd(t, i) ==
    IF t[i] # "\n" THEN 0
    ELSE LET d == SkipWs(t, i + 1) IN
         IF d + 1 > Len(t) \/ t[d] # "-" \/ ~IsWhiteSpace(t[d + 1]) THEN 0
         ELSE LET k == SkipWs(t, d + 1) IN
              IF k > Len(t) \/ t[k] # "id:" THEN 0 ELSE SkipWs(t, k + 1)

\* yaml.split(/\n\s*-\s+id:\s*/)
RECURSIVE SplitFrom(_, _)
SplitFrom(t, start) ==
    LET seps == { i \in start..Len(t) : SepEnd(t, i) > 0 }
    IN  IF seps = {} THEN << SubSeq(t, start, Len(t)) >>
        ELSE << SubSeq(t, start, SetMin(seps) - 1) >>
             \o SplitFrom(t, SepEnd(t, SetMin(seps)))

\* [^"]+ from position i: the longest run without a double quote (line
\* breaks included); [^"\n]+ when the text holds no line break
UnquotedRun(t, i) ==
    LET stop == CHOOSE j \in i..(Len(t) + 1) :
                    /\ j = Len(t) + 1 \/ t[j] = Quote
                    /\ \A k \in i..(j - 1) : t[k] # Quote
    IN  SubSeq(t, i, stop - 1)

\* entry.match(/^"?([^"]+)"?/)?.[1]; <<>> stands for undefined
IdMatch(entry) ==
    IF entry # <<>> /\ entry[1] = Quote THEN UnquotedRun(entry, 2)
    ELSE UnquotedRun(entry, 1)

\* the first position at or after i that holds the token, or 0
FirstIndex(t, tok, i) ==
    LET at == { j \in i..Len(t) : t[j] = tok }
    IN  IF at = {} THEN 0 ELSE SetMin(at)

\* where the group of /key:\s*\n(...)/ may start: after a line break that
\* only white space separates from the key at position k
GroupStarts(t, k) ==
    { g \in (k + 2)..(Len(t) + 1) :
         /\ t[g - 1] = "\n"
         /\ \A j \in (k + 1)..(g - 1) : IsWhiteSpace(t[j]) }

\* /\n\s*[a-z_]+:/ matches at position e
TermAt(t, e) ==
    /\ e <= Len(t)
    /\ t[e] = "\n"
    /\ LET j == SkipWs(t, e + 1) IN j <= Len(t) /\ IsKey(t[j])

\* entry.match(/key:\s*\n([\s\S]*?)\n\s*[a-z_]+:/i)?.[1] ||
\* entry.match(/key:\s*\n([\s\S]*)$/i)?.[1]; <<>> stands for no block
KeyBlock(entry, key) ==
    LET k == FirstIndex(entry, key, 1)
        starts == IF k = 0 THEN {} ELSE GroupStarts(entry, k)
        closed == { g \in starts : \E e \in g..Len(entry) : TermAt(entry, e) }
        lazy == IF closed = {} THEN <<>>
                ELSE LET g == SetMax(closed)
                         e == SetMin({ x \in g..Len(entry) : TermAt(entry, x) })
                     IN  SubSeq(entry, g, e - 1)
    IN  IF lazy # <<>> THEN lazy
        ELSE IF starts = {} THEN <<>>
        ELSE SubSeq(entry, SetMax(starts), Len(entry))

\* block.split("\n")
RECURSIVE SplitLines(_, _)
SplitLines(t, start) ==
    LET nl == FirstIndex(t, "\n", start)
    IN  IF nl = 0 THEN << SubSeq(t, start, Len(t)) >>
        ELSE << SubSeq(t, start, nl - 1) >> \o SplitLines(t, nl + 1)

\* line.match(/-\s*"?([^\"\n]+)"?/)?.[1], tried from the dash at position d on
RECURSIVE ItemFrom(_, _)
ItemFrom(line, from) ==
    LET d == FirstIndex(line, "-", from) IN
    IF d = 0 THEN <<>>
    ELSE LET j == SkipWs(line, d + 1)
             quoted == j <= Len(line) /\ line[j] = Quote
             run == UnquotedRun(line, IF quoted THEN j + 1 ELSE j)
         IN  IF run # <<>> THEN run
             ELSE IF j > d + 1 THEN UnquotedRun(line, j - 1)
             ELSE ItemFrom(line, d + 1)

\* for (const line of block.split("\n")) ... owned_scope.push(m[1])
RECURSIVE Items(_)
Items(lines) ==
    IF lines = <<>> THEN <<>>
    ELSE LET item == ItemFrom(Head(lines), 1)
         IN  (IF item = <<>> THEN <<>> ELSE <<item>>) \o Items(Tail(lines))

\* the loop over the entries: the first whose matched id is the requested id
RECURSIVE FirstBlock(_, _)
FirstBlock(entries, id) ==
    IF entries = <<>> THEN NoBlock
    ELSE IF IdMatch(Head(entries)) # id THEN FirstBlock(Tail(entries), id)
    ELSE LET block == KeyBlock(Head(entries), "owned_scope:")
         IN  [id |-> id,
              owned_scope |-> IF block = <<>> THEN <<>>
                              ELSE Items(SplitLines(block, 1)),
              has |-> AllIntentFields]

\* PreHook.extractIntentBlock(yaml, id) on the text of the file
ExtractIntentBlockText(yaml, id) == FirstBlock(Tail(SplitFrom(yaml, 1)), id)

\* Registry files as they may be written -----------------------------------
\* an entry as written: its id, quoted or bare; its patterns, quoted; with or
\* without a constraints list after them
WrittenBodies ==
    { [owned_scope |-> <<>>, constraints |-> FALSE],
      [owned_scope |-> <<>>, constraints |-> TRUE],
      [owned_scope |-> <<DocsGlob>>, constraints |-> FALSE],
      [owned_scope |-> <<SrcCoreGlob, DocsGlob>>, constraints |-> TRUE] }
WrittenEntries ==
    { [id |-> id, quoted |-> q, owned_scope |-> b.owned_scope,
       constraints |-> b.constraints] :
         id \in {INT001, INT002}, q \in BOOLEAN, b \in WrittenBodies }

RECURSIVE ItemLines(_)
ItemLines(items) ==
    IF items = <<>> THEN <<>>
    ELSE <<" ", "-", " ", Quote>> \o Head(items) \o <<Quote, "\n">>
         \o ItemLines(Tail(items))

EntryText(e) ==
    <<" ", "-", " ", "id:", " ">>
    \o (IF e.quoted THEN <<Quote>> \o e.id \o <<Quote>> ELSE e.id) \o <<"\n">>
    \o <<" ", "owned_scope:", "\n">> \o ItemLines(e.owned_scope)
    \o (IF e.constraints THEN <<" ", "constraints:", "\n">> \o ItemLines(<< <<"c">> >>)
        ELSE <<>>)

RECURSIVE EntriesText(_)
EntriesText(es) ==
    IF es = <<>> THEN <<>> ELSE EntryText(Head(es)) \o EntriesText(Tail(es))

\* the file: a first line "active_intents:" or none, then the entries
YamlText(header, es) ==
    (IF header THEN <<"active_intents:", "\n">> ELSE <<>>) \o EntriesText(es)

WrittenInputs == {<<>>} \cup SeqsUpTo(WrittenEntries, MaxEntries)
LookupIds == {INT001, UnlistedId}

\* extractIntentBlock applied to the text of a written registry
ExtractIntentBlockApply(header, es, id) ==
    /\ call = NoCall
    /\ call' = [NoCall EXCEPT !.op = "extractIntentBlock", !.id = Str(id),
                               !.header = header, !.written = es]
    /\ LET block == ExtractIntentBlockText(YamlText(header, es), id)
       IN  ret' = IF block = NoBlock THEN [NoRet EXCEPT !.v = "null"]
                  ELSE [NoRet EXCEPT !.v = "intent", !.id = block.id,
                                     !.has = block.has,
                                     !.owned_scope = block.owned_scope]
    /\ UNCHANGED <<engineVars, files, lockVars, sessionVars>>

FnNext ==
    \/ call = NoCall /\ \E h \in BOOLEAN, es \in WrittenInputs, id \in LookupIds :
                            ExtractIntentBlockApply(h, es, id)
    \/ call = NoCall /\ \E p \in PathInputs, sc \in ScopeInputs : EnforceScopeApply(p, sc)
    \/ call = NoCall /\ \E id \in IntentIdInputs : ValidateApply(id)
    \/ call = NoCall /\ \E id \in IntentIdInputs : ValidateBothApply(id)
    \/ call = NoCall /\ \E id \in IntentIdInputs, p \in PathInputs :
                            ValidateThenEnforceScope(id, p)
    \/ call = NoCall /\ \E cmd \in FnCommandInputs : ClassifyCommandApply(cmd)
    \/ call = NoCall /\ \E c1 \in ContentInputs, c2 \in ContentInputs :
                            GenerateContentHashApply(c1, c2)

FnInit == registry \in FnRegistries /\ InitRest

FnSpec == FnInit /\ [][FnNext]_vars

(***************************************************************************)
(* What the specification says, stated apart from the code's operators.    *)
(***************************************************************************)
\* an intent id that is absent, empty or whitespace-only
IsMissingId(v) == v.t = "null" \/ \A i \in 1..Len(v.s) : IsWhiteSpace(v.s[i])

\* glob semantics of the specification: "**" matches any run of characters,
\* separators included; "*" matches a run without a separator; every other
\* character matches itself
RECURSIVE SpecGlobMatch(_, _)
SpecGlobMatch(pattern, path) ==
    IF pattern = <<>> THEN path = <<>>
    ELSE IF Len(pattern) >= 2 /\ pattern[1] = "*" /\ pattern[2] = "*"
         THEN \/ SpecGlobMatch(SubSeq(pattern, 3, Len(pattern)), path)
              \/ (path # <<>> /\ SpecGlobMatch(pattern, Tail(path)))
    ELSE IF pattern[1] = "*"
         THEN \/ SpecGlobMatch(Tail(pattern), path)
              \/ (path # <<>> /\ Head(path) # "/" /\ SpecGlobMatch(pattern, Tail(path)))
    ELSE path # <<>> /\ Head(path) = pattern[1]
                     /\ SpecGlobMatch(Tail(pattern), Tail(path))

SpecInScope(owned_scope, path) ==
    \E k \in 1..Len(owned_scope) : SpecGlobMatch(owned_scope[k], path)

\* agent a is inside an executeWithHooks call
InEngine(a) == req[a].op = "executeWithHooks"

IsPrefix(s, t) == Len(s) <= Len(t) /\ SubSeq(t, 1, Len(s)) = s

(***************************************************************************)
(* C1: an executeWithHooks call whose intent id is absent, empty or        *)
(* whitespace-only is BLOCKED with MissingIntent; its action is never      *)
(* invoked and it appends nothing to the ledger.                           *)
(***************************************************************************)
C1_MissingIntentBlocked ==
    \A a \in Agents :
        (InEngine(a) /\ IsMissingId(req[a].intentId))
        => /\ pc[a] = "BLOCKED"
           /\ outcome[a] = "MissingIntent"
           /\ invoked[a] = 0
           /\ appended[a] = 0

\* a whitespace-only id is blocked while the ledger already holds an entry
\* and no intent was ever selected
C1_Witness ==
    \E a \in Agents :
        /\ InEngine(a) /\ pc[a] = "BLOCKED"
        /\ req[a].intentId = Str(<<" ">>)
        /\ activeIntentId = Null
        /\ Len(ledger) = 1

(***************************************************************************)
(* C2: in every executeWithHooks call, if a gate step fails (intent check, *)
(* scope check, command classification, authorization) the wrapped action  *)
(* is not invoked and no trace entry is appended for the call.             *)
(***************************************************************************)
GateStepFails(a) ==
    \/ IsMissingId(req[a].intentId)
    \/ /\ req[a].filePath.t = "str"
       /\ ~SpecInScope(ValidateIntent(registry, req[a].intentId).owned_scope,
                       req[a].filePath.s)
    \/ ClassifyCommand(req[a].command) = "UnknownCommand"
    \/ auth[a] \in {"Reject", "dismissed"}

C2_GateFailureBlocks ==
    \A a \in Agents :
        (InEngine(a) /\ pc[a] \in {"INTENT_CHECK", "EXECUTING", "LOGGING", "BLOCKED"}
                     /\ GateStepFails(a))
        => (invoked[a] = 0 /\ appended[a] = 0)

(***************************************************************************)
(* C3: whenever executeWithHooks has invoked the wrapped action for a      *)
(* request with a target path, that path matches at least one pattern of   *)
(* the owned_scope of the intent resolved from the request's intent id.    *)
(***************************************************************************)
C3_ExecutingWithinScope ==
    \A a \in Agents :
        (InEngine(a) /\ pc[a] = "EXECUTING" /\ req[a].filePath.t = "str")
        => SpecInScope(ValidateIntent(registry, req[a].intentId).owned_scope,
                       req[a].filePath.s)

(***************************************************************************)
(* C4: an action whose command is classified Destructive is EXECUTING only *)
(* after the authorization step has returned granted for its call.         *)
(***************************************************************************)
C4_DestructiveNeedsGrant ==
    \A a \in Agents :
        (InEngine(a) /\ pc[a] = "EXECUTING"
                     /\ ClassifyCommand(req[a].command) = "Destructive")
        => auth[a] = "Approve"

(***************************************************************************)
(* C5: every executeWithHooks call whose action completed and which        *)
(* returned to its caller appended exactly one trace entry, and no call    *)
(* appended more than one.                                                 *)
(***************************************************************************)
C5_OneEntryPerSuccess ==
    \A a \in Agents :
        InEngine(a) => /\ appended[a] <= 1
                       /\ pc[a] = "DONE" => appended[a] = 1

(***************************************************************************)
(* C6: the ledger is monotonic: in every step of every operation the       *)
(* previous ledger is a prefix of the new one.                             *)
(***************************************************************************)
C6_LedgerMonotonic == [][IsPrefix(ledger, ledger')]_vars

\* two different entries were appended, the second after a gate call
C6_Witness ==
    /\ Len(ledger) = 2
    /\ ledger[1] # ledger[2]
    /\ \E a \in Agents : pc[a] = "RETURNED" /\ req[a].op = "enforceScope"

(***************************************************************************)
(* C7: if the wrapped action throws after the gate passed, the call ends   *)
(* FAILED with the action's error; the logger is not run and the call      *)
(* appends nothing.                                                        *)
(***************************************************************************)
C7_ActionFailureNoTrace ==
    \A a \in Agents :
        outcome[a] = "ActionError"
        => /\ pc[a] = "FAILED"
           /\ invoked[a] = 1
           /\ appended[a] = 0
           /\ failedAppends[a] = 0

\* an action failed while another call's entry is in the ledger
C7_Witness ==
    \E a \in Agents :
        /\ pc[a] = "FAILED" /\ outcome[a] = "ActionError"
        /\ Len(ledger) = 1

(***************************************************************************)
(* C8: a call whose ledger append failed does not end DONE and does not    *)
(* report success: the failure is what the caller gets.                    *)
(***************************************************************************)
C8_LedgerFailureSurfaced ==
    \A a \in Agents :
        failedAppends[a] > 0
        => /\ pc[a] \in {"FAILED", "RETURNED"}
           /\ outcome[a] = "LedgerWriteFailure"
           /\ appended[a] = 0

\* the append failed after the action of an executeWithHooks call returned
C8_Witness ==
    \E a \in Agents :
        /\ InEngine(a) /\ failedAppends[a] = 1 /\ invoked[a] = 1
        /\ pc[a] = "FAILED"

(***************************************************************************)
(* C9: every ledger append is one indivisible step: a step that changes    *)
(* the ledger adds exactly the one entry of the one call that completes    *)
(* its append in that step, at the end; and the ledger holds as many       *)
(* entries as appends have completed.                                      *)
(***************************************************************************)
AppendStepOf(a) ==
    /\ appended'[a] = appended[a] + 1
    /\ \A b \in Agents \ {a} : appended'[b] = appended[b]
    /\ Len(ledger') = Len(ledger) + 1
    /\ IsPrefix(ledger, ledger')
    /\ pc[a] = "LOGGING" =>
          ledger'[Len(ledger')] = TraceEntry(req[a].filePath.s, req[a].content.s,
                                             req[a].intentId.s)

C9_AtomicAppend ==
    /\ [](Len(ledger) = nAppended)
    /\ [][ \/ (ledger' = ledger /\ \A a \in Agents : appended'[a] <= appended[a])
           \/ \E a \in Agents : AppendStepOf(a) ]_vars

\* one agent's append completed while the other's call was in its log step
C9_Witness ==
    \E a, b \in Agents :
        /\ a # b
        /\ pc[a] = "DONE" /\ appended[a] = 1
        /\ pc[b] = "LOGGING"
        /\ Len(ledger) = 1

(***************************************************************************)
(* C10: a commit check made when exactly one hash-changing write happened  *)
(* since the snapshot was acquired fails with StaleFile; a commit check    *)
(* made when no hash-changing write happened since the (re-)acquire        *)
(* succeeds.                                                               *)
(***************************************************************************)
C10_StaleThenFresh ==
    \A b \in LockAgents :
        check[b].result # "none"
        => /\ check[b].fileVersion = check[b].snapVersion + 1
                => check[b].result = "StaleFile"
           /\ check[b].fileVersion = check[b].snapVersion
                => check[b].result = "ok"

\* B failed on its stale snapshot, re-acquired and passed; the write that
\* invalidated its first snapshot was another agent's commit
C10_Witness ==
    \E a, b \in LockAgents :
        /\ a # b
        /\ snapshot[b].reacquired
        /\ check[b].result = "ok"
        /\ lastWriter[snapshot[b].path] = a
        /\ version[snapshot[b].path] = 1

(***************************************************************************)
(* C11: no lost update.  Of the agents that hold the same snapshot of a    *)
(* path at most one writes the file on the basis of that snapshot: a       *)
(* content-changing commit write is never based on the snapshot version    *)
(* that the previous content-changing commit write of the path was based   *)
(* on.                                                                     *)
(***************************************************************************)
C11_FirstCommitWins ==
    [][ \A a \in LockAgents :
          (snapshot[a] # NoSnapshot /\ snapshot'[a] = NoSnapshot
             /\ version'[snapshot[a].path] # version[snapshot[a].path])
          => snapshot[a].version \notin lastBasis[snapshot[a].path] ]_vars

(***************************************************************************)
(* C12: a commit check returns ok if and only if the hash of the content   *)
(* the path holds when the check runs equals the expected hash; otherwise  *)
(* it fails with StaleFile.                                                *)
(***************************************************************************)
C12_CheckIffHashEqual ==
    [][ \A a \in LockAgents :
          (check'[a] # check[a] /\ check'[a] # NoCheck)
          => /\ check'[a].result \in {"ok", "StaleFile"}
             /\ check'[a].result = "ok"
                   <=> GenerateContentHash(files[snapshot[a].path]) = snapshot[a].hash ]_vars

\* one agent's check failed on a changed file, another's passed although the
\* file was written twice since its snapshot (the content came back)
C12_Witness ==
    \E a, b \in LockAgents :
        /\ check[a].result = "StaleFile"
        /\ check[b].result = "ok"
        /\ check[b].fileVersion = check[b].snapVersion + 2

(***************************************************************************)
(* Patterns taken apart, for the claims about the scope matcher.           *)
(***************************************************************************)
\* no character that a glob or a regular expression reads as an operator
IsPlain(cs) == \A i \in 1..Len(cs) : cs[i] \notin {"*", ".", "+"}
StarPositions(cs) == { i \in 1..Len(cs) : cs[i] = "*" }
IsSuffix(s, t) == Len(s) <= Len(t) /\ SubSeq(t, Len(t) - Len(s) + 1, Len(t)) = s
\* enforceScope was applied to a path and an owned_scope of one pattern
OnePatternCall == call.op = "enforceScope" /\ Len(call.scope) = 1

(***************************************************************************)
(* C13: enforceScope(p, I) succeeds if and only if p matches at least one  *)
(* pattern of I.owned_scope under the glob semantics (an empty owned_scope *)
(* rejects every path), and otherwise it fails with ScopeViolation.        *)
(***************************************************************************)
C13_EnforceScopeIffInScope ==
    call.op = "enforceScope"
    => /\ ret.v = "ok" <=> SpecInScope(call.scope, call.path)
       /\ ret.v # "ok" => ret.v = "ScopeViolation"

(***************************************************************************)
(* C14: for every plain prefix P, the pattern P/** matches every path      *)
(* below P, at any depth.                                                  *)
(***************************************************************************)
C14_DoubleStarRecursive ==
    OnePatternCall =>
        LET pat == call.scope[1]
            P   == SubSeq(pat, 1, Len(pat) - 3)
        IN  (/\ Len(pat) > 3
             /\ IsSuffix(<<"/", "*", "*">>, pat)
             /\ IsPlain(P)
             /\ IsPrefix(P \o <<"/">>, call.path)
             /\ Len(call.path) > Len(P) + 1)
            => ret.v = "ok"

(***************************************************************************)
(* C15: a pattern with a single "*", pre*post, accepts no path             *)
(* pre m post in which m, the part the "*" would have to match, contains   *)
(* a path separator.                                                       *)
(***************************************************************************)
C15_SingleStarStaysInSegment ==
    (OnePatternCall /\ Cardinality(StarPositions(call.scope[1])) = 1) =>
        LET pat  == call.scope[1]
            k    == CHOOSE i \in StarPositions(pat) : TRUE
            pre  == SubSeq(pat, 1, k - 1)
            post == SubSeq(pat, k + 1, Len(pat))
            m    == SubSeq(call.path, Len(pre) + 1, Len(call.path) - Len(post))
        IN  (/\ Len(call.path) >= Len(pre) + Len(post)
             /\ IsPrefix(pre, call.path)
             /\ IsSuffix(post, call.path)
             /\ \E i \in 1..Len(m) : m[i] = "/")
            => ret.v # "ok"

(***************************************************************************)
(* C16: a pattern without "*" accepts exactly the one path equal to it,    *)
(* character for character.                                                *)
(***************************************************************************)
C16_LiteralMatchesItself ==
    (OnePatternCall /\ StarPositions(call.scope[1]) = {})
    => (ret.v = "ok" <=> call.path = call.scope[1])

(***************************************************************************)
(* The registry and the command table as the specification describes them. *)
(***************************************************************************)
SpecSafe == {"read_file", "list_files"}
SpecDestructive == {"write_file", "delete_file", "execute_command"}

(***************************************************************************)
(* C17: for a non-empty intent id that the registry does not list (or      *)
(* whose registry cannot be read), enforceScope on the record validate     *)
(* returns succeeds for every file path.                                   *)
(***************************************************************************)
C17_StubAllowsEveryPath ==
    (call.op = "validate;enforceScope" /\ ~IsListed(registry, call.id))
    => ret.v = "ok"

C19_ClosedTable ==
    call.op = "classifyCommand"
    => /\ ret.v = "Safe" <=> call.command \in SpecSafe
       /\ ret.v = "Destructive" <=> call.command \in SpecDestructive
       /\ ret.v = "UnknownCommand" <=> call.command \notin SpecSafe \cup SpecDestructive
       /\ SpecSafe \cap SpecDestructive = {}

\* a name that differs from a listed one only in case is not classified
C19_Witness ==
    call.op = "classifyCommand" /\ call.command = "READ_FILE" /\ ret.v = "UnknownCommand"

(***************************************************************************)
(* C20: authorizeCommand grants a Safe command without asking for an       *)
(* approval decision; for a Destructive command it asks for one decision   *)
(* and returns granted if and only if that decision is Approve (Reject and *)
(* a dismissed prompt both give denied).                                   *)
(***************************************************************************)
C20_AuthorizeDecision ==
    \A a \in Agents :
        req[a].op = "authorizeCommand"
        => /\ req[a].command \in SpecSafe
                => (pc[a] = "RETURNED" /\ outcome[a] = "granted" /\ auth[a] = "none")
           /\ req[a].command \in SpecDestructive
                => \/ (pc[a] = "AUTH_WAIT" /\ auth[a] = "pending" /\ outcome[a] = "none")
                   \/ /\ pc[a] = "RETURNED"
                      /\ auth[a] \in UserResponses
                      /\ outcome[a] = IF auth[a] = "Approve" THEN "granted" ELSE "denied"

\* one agent's prompt was dismissed and the command denied, while the other
\* agent's Safe command had been granted without a prompt
C20_Witness ==
    \E a, b \in Agents :
        /\ req[a].op = "authorizeCommand" /\ req[a].command = "delete_file"
        /\ auth[a] = "dismissed" /\ outcome[a] = "denied"
        /\ req[b].op = "authorizeCommand" /\ req[b].command = "read_file"
        /\ outcome[b] = "granted"

(***************************************************************************)
(* The cosmetic normalization of contents the specification asks of the    *)
(* hash: one representation of line endings, no white space at the end of  *)
(* a line.                                                                 *)
(***************************************************************************)
\* "\r\n" and a lone "\r" become "\n"
RECURSIVE UnifyLineEndings(_)
UnifyLineEndings(cs) ==
    IF cs = <<>> THEN <<>>
    ELSE IF Len(cs) >= 2 /\ cs[1] = "\r" /\ cs[2] = "\n"
         THEN <<"\n">> \o UnifyLineEndings(SubSeq(cs, 3, Len(cs)))
    ELSE IF cs[1] = "\r" THEN <<"\n">> \o UnifyLineEndings(Tail(cs))
    ELSE <<cs[1]>> \o UnifyLineEndings(Tail(cs))

\* spaces and tabs in front of a "\n" or of the end are dropped
RECURSIVE StripTrailing(_)
StripTrailing(cs) ==
    IF cs = <<>> THEN <<>>
    ELSE LET rest == StripTrailing(Tail(cs))
         IN  IF cs[1] \in {" ", "\t"} /\ (rest = <<>> \/ rest[1] = "\n")
             THEN rest ELSE <<cs[1]>> \o rest

Normalize(cs) == StripTrailing(UnifyLineEndings(cs))

(***************************************************************************)
(* C21: the content hash is deterministic and reformat-stable: two         *)
(* contents hash equally if and only if their normalized forms are equal   *)
(* (equal contents hash equally, contents differing only in line endings   *)
(* or trailing white space hash equally, all others hash differently).     *)
(***************************************************************************)
C21_HashOfNormalizedContent ==
    call.op = "generateContentHash"
    => (ret.hash = ret.hash2 <=> Normalize(call.content) = Normalize(call.content2))

(***************************************************************************)
(* The select-active-intent entry points and executePreHook, as steps.     *)
(***************************************************************************)
SelectOps == {"PreHook.selectActiveIntent", "select_active_intent",
              "selectActiveIntent", "SelectActiveIntentTool.execute"}

\* session a's executePreHook call returns or throws in this step
PreHookReturns(a) ==
    pc[a] = "idle" /\ pc'[a] = "RETURNED" /\ req'[a].op = "executePreHook"

\* a select call of session a reaches its caller in this step
SelectReturns(a) ==
    pc[a] # "RETURNED" /\ pc'[a] = "RETURNED" /\ req'[a].op \in SelectOps

(***************************************************************************)
(* C22: the active intent is per session: while a session has made no      *)
(* select call of its own, its executePreHook calls for a mutating tool are *)
(* blocked with the governance violation, whatever the other session has    *)
(* selected.                                                               *)
(***************************************************************************)
C22_SelectStaysInSession ==
    [][\A b \in Agents :
          (PreHookReturns(b) /\ sel[b] = "none" /\ req'[b].command \in GatedTools)
          => outcome'[b] = "GovernanceViolation"]_vars

(***************************************************************************)
(* C23: executePreHook lets a mutating tool pass only after some select     *)
(* call whose id the registry lists, and the session's intent is marked     *)
(* verified only after such a call.                                         *)
(***************************************************************************)
C23_BlockedUntilListedSelected ==
    /\ [](ctx.isIntentVerified => \E b \in Agents : sel[b] = "listed")
    /\ [][\A a \in Agents :
             (PreHookReturns(a) /\ req'[a].command \in GatedTools
                                /\ outcome'[a] = "ok")
             => \E b \in Agents : sel[b] = "listed"]_vars

(***************************************************************************)
(* C24: a select call with an absent or empty intent id, through any of the *)
(* four entry points, reports an error to its caller and leaves the active  *)
(* intent (the module's and the provider's) as it was.                      *)
(***************************************************************************)
C24_EmptySelectIsError ==
    [][\A a \in Agents :
          (SelectReturns(a) /\ ~Truthy(req'[a].intentId))
          => /\ outcome'[a] = "error"
             /\ activeIntentId' = activeIntentId
             /\ ctx' = ctx]_vars

(***************************************************************************)
(* C26: while no intent is active, executePreHook throws the governance     *)
(* violation for every tool name that classifyCommand classifies as         *)
(* Destructive and for write_to_file.                                       *)
(***************************************************************************)
C26_NoIntentBlocksEveryMutatingTool ==
    [][\A a \in Agents :
          (PreHookReturns(a) /\ ~Truthy(activeIntentId)
             /\ (ClassifyCommand(req'[a].command) = "Destructive"
                 \/ req'[a].command = "write_to_file"))
          => outcome'[a] = "GovernanceViolation"]_vars

(***************************************************************************)
(* C28: executePreHook blocks a mutating tool exactly when PreHook.validate *)
(* rejects the selected id with MissingIntent, for every id value (absent,  *)
(* empty, whitespace-only, non-empty).                                      *)
(***************************************************************************)
C28_GatesAgreeOnMissing ==
    [][\A a \in Agents :
          (PreHookReturns(a) /\ req'[a].command \in GatedTools)
          => (outcome'[a] = "GovernanceViolation" <=> ValidateThrows(activeIntentId))]_vars

(***************************************************************************)
(* C27: a selectActiveIntent call that fails (registry unreadable, or the   *)
(* id not listed) returns success = false and leaves the active intent as   *)
(* it was; a call that succeeds sets the active intent to exactly its id.    *)
(***************************************************************************)
C27_FailedSelectKeepsActiveIntent ==
    [][\A a \in Agents :
          (pc[a] = "SELECT_READ" /\ pc'[a] = "RETURNED")
          => IF IsListed(registry, req[a].intentId)
             THEN outcome'[a] = "success" /\ activeIntentId' = req[a].intentId
             ELSE outcome'[a] = "error" /\ activeIntentId' = activeIntentId]_vars

\* an unlisted id was refused while INT-001, selected before, stays active
C27_Witness ==
    \E a \in Agents :
        /\ req[a].op = "selectActiveIntent" /\ req[a].intentId = Str(UnlistedId)
        /\ pc[a] = "RETURNED" /\ outcome[a] = "error"
        /\ activeIntentId = Str(INT001)

(***************************************************************************)
(* C30: SelectActiveIntentTool.execute called with a missing or empty       *)
(* intent_id pushes exactly one tool result, the missing-intent_id error,   *)
(* returns without reading the registry, and changes neither activeIntentId *)
(* nor isIntentVerified.                                                    *)
(***************************************************************************)
C30_MissingIdToolCall ==
    /\ [](\A a \in Agents :
             (req[a].op = "SelectActiveIntentTool.execute" /\ ~Truthy(req[a].intentId))
             => /\ pc[a] = "RETURNED"
                /\ toolResults[a] = <<MissingIntentIdResult>>
                /\ reads[a] = 0)
    /\ [][\A a \in Agents :
             (pc[a] = "idle" /\ req'[a].op = "SelectActiveIntentTool.execute"
                             /\ ~Truthy(req'[a].intentId))
             => (ctx' = ctx /\ activeIntentId' = activeIntentId)]_vars

\* an empty intent_id was refused after an earlier call had stored INT-001
\* and marked it verified
C30_Witness ==
    \E a \in Agents :
        /\ req[a].op = "SelectActiveIntentTool.execute" /\ req[a].intentId = Str(<<>>)
        /\ pc[a] = "RETURNED"
        /\ ctx = [activeIntentId |-> Str(INT001), isIntentVerified |-> TRUE]

(***************************************************************************)
(* C29: for every id and every registry, the validate part_002 keeps and    *)
(* PreHook.validate either both fail with the missing-intent error or both  *)
(* return an intent with the same id and the same owned_scope.              *)
(***************************************************************************)
C29_LegacyValidateEquivalent ==
    call.op = "validate;legacy"
    => /\ ret.v = ret.v2
       /\ ret.v \in {"MissingIntent", "intent"}
       /\ ret.id = ret.id2
       /\ ret.owned_scope = ret.owned_scope2

\* both fell back to the permissive stub for an id the readable registry
\* does not list
C29_Witness ==
    /\ call.op = "validate;legacy" /\ call.id = Str(UnlistedId)
    /\ registry = RegistryTwo
    /\ ret.v2 = "intent" /\ ret.id2 = UnlistedId
    /\ ret.owned_scope2 = << <<"*", "*">> >>

(***************************************************************************)
(* C25: no executeWithHooks call waits for another agent's operation:       *)
(* under fair scheduling every call reaches DONE, BLOCKED or FAILED, and    *)
(* once it is in one of them it stays there until its caller takes the      *)
(* result.                                                                  *)
(***************************************************************************)
C25_EveryInvocationTerminates ==
    /\ \A a \in Agents :
          (InEngine(a) /\ pc[a] \notin Terminal) ~> (InEngine(a) /\ pc[a] \in Terminal)
    /\ [][\A a \in Agents :
             (InEngine(a) /\ pc[a] \in Terminal) => pc'[a] \in {pc[a], "idle"}]_vars

\* one call is FAILED while the other agent's approval prompt is still open
C25_Witness ==
    \E a, b \in Agents :
        /\ InEngine(a) /\ pc[a] = "FAILED"
        /\ pc[b] = "AUTH_WAIT"

(***************************************************************************)
(* C31: authorizeCommand called with a command name outside the            *)
(* classification table fails with UnknownCommand at once: no approval      *)
(* decision is requested and the command is never granted.                  *)
(***************************************************************************)
C31_UnlistedCommandNeverPrompts ==
    \A a \in Agents :
        (req[a].op = "authorizeCommand"
           /\ req[a].command \notin SpecSafe \cup SpecDestructive)
        => /\ pc[a] = "RETURNED"
           /\ outcome[a] = "UnknownCommand"
           /\ auth[a] = "none"

\* an unlisted command was refused while the other agent's prompt for a
\* Destructive command is open
C31_Witness ==
    \E a, b \in Agents :
        /\ req[a].op = "authorizeCommand" /\ req[a].command = "frobnicate"
        /\ outcome[a] = "UnknownCommand"
        /\ req[b].op = "authorizeCommand" /\ pc[b] = "AUTH_WAIT"

(***************************************************************************)
(* C32: the gate checks are read-only: every step of validate,              *)
(* enforceScope, classifyCommand, authorizeCommand (its prompt included),   *)
(* enforceConcurrencyControl and executePreHook, passing or failing, leaves *)
(* the active intent, the registry, the workspace files and the ledger as   *)
(* they were.                                                               *)
(***************************************************************************)
GateCheckOps == {"validate", "enforceScope", "classifyCommand", "authorizeCommand",
                 "enforceConcurrencyControl", "executePreHook"}

C32_GateChecksReadOnly ==
    [][\A a \in Agents :
          (pc'[a] # pc[a] /\ req'[a].op \in GateCheckOps)
          => /\ activeIntentId' = activeIntentId
             /\ registry' = registry
             /\ files' = files
             /\ ledger' = ledger]_vars

\* a check failed with an intent active and an entry already in the ledger
C32_Witness ==
    \E a \in Agents :
        /\ req[a].op = "enforceConcurrencyControl" /\ outcome[a] = "StaleFile"
        /\ activeIntentId = Str(INT001)
        /\ Len(ledger) = 1

RECURSIVE SpecLookup(_, _)
SpecLookup(es, id) ==
    IF es = <<>> THEN NoBlock
    ELSE IF Head(es).id = id
         THEN [id |-> id, owned_scope |-> Head(es).owned_scope, has |-> AllIntentFields]
         ELSE SpecLookup(Tail(es), id)

C34_LookupResolvesOwnRecord ==
    call.op = "extractIntentBlock"
    => LET expected == SpecLookup(call.written, call.id.s)
       IN  IF expected = NoBlock THEN ret.v = "null"
           ELSE /\ ret.v = "intent"
                /\ ret.id = expected.id
                /\ ret.owned_scope = expected.owned_scope

====
